---- MODULE Spec2Model ----
(***************************************************************************)
(* Model of the JW Daily Text plugin (yarko-w/jw-daily-text).              *)
(*                                                                         *)
(*  - src/src/fetcher.ts : DailyTextFetcher, the regex based extraction    *)
(*    of scripture, citation and commentary and the cleanHtml normalizer;  *)
(*  - src/main.js        : the earlier draft of the same extractors;       *)
(*  - src/src/main.ts    : the plugin, its auto-fetch timers and settings. *)
(*                                                                         *)
(* JavaScript strings are TLA+ strings, handled character by character     *)
(* with Len, SubSeq and \o.  Three characters outside ASCII are written    *)
(* with an ASCII stand-in that the inputs never use for anything else:     *)
(*     EmDash  (U+2014)  "~"                                               *)
(*     Zwsp    (U+200B)  "^"                                               *)
(*     Pilcrow (U+00B6)  "|"                                               *)
(* Each is one UTF-16 code unit, so string lengths are those of the code.  *)
(***************************************************************************)
EXTENDS Integers, Sequences, FiniteSets, TLC

VARIABLES
    html,        \* cleanHtml specification: the string under normalization
    cleaned,     \* cleanHtml(html)
    recleaned,   \* cleanHtml(cleanHtml(html))
    build,       \* which DailyTextFetcher runs: "fetcher.ts" or the "main.js" draft
    response,    \* what requestUrl delivered to fetchDailyTextForDate
    scripture,   \* DailyText.scripture
    citation,    \* DailyText.citation
    commentary,  \* DailyText.commentary
    error,       \* the error fetchDailyTextForDate rethrows, "" if none
    pc,          \* position in the operation being modelled
    lifecycle,   \* JWDailyTextPlugin: "constructed", "loaded" or "unloaded"
    settings,    \* this.settings
    saved,       \* the plugin data on disk (loadData / saveData)
    midnightTimeoutId,  \* 0 stands for null
    dailyIntervalId,    \* 0 stands for null
    timers,      \* the active timers of the window: [id, kind, due]
    nextTimerId, \* the id the next setTimeout / setInterval returns
    today,       \* the current date
    calls,       \* the fetchAndWriteDailyText calls in progress
    nextCallId,  \* numbers the calls of fetchAndWriteDailyText
    toggles,     \* auto-fetch onChange handlers awaiting saveSettings
    autoStarts,  \* per date, the fetches maybePerformAutoFetch has started
    files        \* the vault: per date, the daily note of that date

cleanVars == <<html, cleaned, recleaned>>
fetchVars == <<build, response, scripture, citation, commentary, error>>
pluginVars == <<lifecycle, settings, saved, midnightTimeoutId, dailyIntervalId, timers,
                nextTimerId, today, calls, nextCallId, toggles, autoStarts, files>>
vars == <<html, cleaned, recleaned, build, response, scripture, citation, commentary,
          error, pc, lifecycle, settings, saved, midnightTimeoutId, dailyIntervalId,
          timers, nextTimerId, today, calls, nextCallId, toggles, autoStarts, files>>

(***************************************************************************)
(* Characters                                                              *)
(***************************************************************************)
EmDash == "~"
Zwsp == "^"
Pilcrow == "|"

Digit == {"0", "1", "2", "3", "4", "5", "6", "7", "8", "9"}
UpperCase == "ABCDEFGHIJKLMNOPQRSTUVWXYZ"
LowerCase == "abcdefghijklmnopqrstuvwxyz"
UpperSet == {SubSeq(UpperCase, i, i) : i \in 1..26}
LowerSet == {SubSeq(LowerCase, i, i) : i \in 1..26}
Letter == UpperSet \cup LowerSet
\* \s of the regular expressions and the characters String.prototype.trim strips
WhiteSpace == {" ", "\t", "\n", "\r"}
\* the characters "." does not match without the s flag
LineTerminator == {"\n", "\r"}

Ch(s, i) == SubSeq(s, i, i)

\* case folding of the i flag
ToLowerChar(c) ==
    IF c \in UpperSet
    THEN LET k == CHOOSE i \in 1..26 : SubSeq(UpperCase, i, i) = c
         IN SubSeq(LowerCase, k, k)
    ELSE c

RECURSIVE ToLower(_)
ToLower(s) == IF s = "" THEN "" ELSE ToLowerChar(Ch(s, 1)) \o ToLower(Tail(s))

(***************************************************************************)
(* String primitives of the JavaScript runtime                             *)
(***************************************************************************)
\* s has the literal lit at position i
StartsAt(s, i, lit) ==
    /\ i >= 1
    /\ i + Len(lit) - 1 <= Len(s)
    /\ SubSeq(s, i, i + Len(lit) - 1) = lit

\* the least element of a non-empty set of indices
Least(S) == CHOOSE k \in S : \A j \in S : k <= j

\* String.prototype.indexOf, 1-based; 0 when lit does not occur at or after from
IndexOf(s, lit, from) ==
    LET hits == {k \in from..(Len(s) - Len(lit) + 1) : StartsAt(s, k, lit)}
    IN IF hits = {} THEN 0 ELSE Least(hits)

\* indexOf under the i flag: lit is given in lower case
StartsAtCI(s, i, lit) ==
    /\ i >= 1
    /\ i + Len(lit) - 1 <= Len(s)
    /\ ToLower(SubSeq(s, i, i + Len(lit) - 1)) = lit

IndexOfCI(s, lit, from) ==
    LET hits == {k \in from..(Len(s) - Len(lit) + 1) : StartsAtCI(s, k, lit)}
    IN IF hits = {} THEN 0 ELSE Least(hits)

\* String.prototype.includes
Includes(s, lit) == IndexOf(s, lit, 1) # 0

\* s.replace(/lit/g, rep) for a literal pattern
RECURSIVE ReplaceAllFrom(_, _, _, _)
ReplaceAllFrom(s, lit, rep, i) ==
    LET k == IndexOf(s, lit, i)
    IN IF k = 0 THEN SubSeq(s, i, Len(s))
       ELSE SubSeq(s, i, k - 1) \o rep \o ReplaceAllFrom(s, lit, rep, k + Len(lit))

ReplaceAll(s, lit, rep) == ReplaceAllFrom(s, lit, rep, 1)

\* first index >= i whose character is not white space (Len(s)+1 if none)
RECURSIVE SkipSpace(_, _)
SkipSpace(s, i) ==
    IF i <= Len(s) /\ Ch(s, i) \in WhiteSpace THEN SkipSpace(s, i + 1) ELSE i

\* last index <= j whose character is not white space (0 if none)
RECURSIVE SkipSpaceBack(_, _)
SkipSpaceBack(s, j) ==
    IF j >= 1 /\ Ch(s, j) \in WhiteSpace THEN SkipSpaceBack(s, j - 1) ELSE j

\* String.prototype.trim
Trim(s) == SubSeq(s, SkipSpace(s, 1), SkipSpaceBack(s, Len(s)))

(***************************************************************************)
(* cleanHtml                                                               *)
(***************************************************************************)
\* s.replace(/<[^>]*>/g, ''): every "<" that has a ">" after it is removed
\* together with everything up to the first such ">"
RECURSIVE StripTagsFrom(_, _)
StripTagsFrom(s, i) ==
    LET lt == IndexOf(s, "<", i)
        gt == IndexOf(s, ">", lt + 1)
    IN IF lt = 0 \/ gt = 0 THEN SubSeq(s, i, Len(s))
       ELSE SubSeq(s, i, lt - 1) \o StripTagsFrom(s, gt + 1)

StripTags(s) == StripTagsFrom(s, 1)

\* the entity replacements of cleanHtml, in the order of the source
DecodeEntities(s) ==
    LET s1 == ReplaceAll(s, "&nbsp;", " ")
        s2 == ReplaceAll(s1, "&amp;", "&")
        s3 == ReplaceAll(s2, "&lt;", "<")
        s4 == ReplaceAll(s3, "&gt;", ">")
        s5 == ReplaceAll(s4, "&quot;", "\"")
        s6 == ReplaceAll(s5, "&#39;", "'")
        s7 == ReplaceAll(s6, "&#8203;", "")
    IN ReplaceAll(s7, Zwsp, "")

cleanHtml(s) == Trim(DecodeEntities(StripTags(s)))

(***************************************************************************)
(* Results of JavaScript calls: a value, or a thrown error                 *)
(***************************************************************************)
Ok(v) == [threw |-> FALSE, value |-> v]
Throw(e) == [threw |-> TRUE, value |-> e]
\* a JavaScript value handed to an extractor: a string, or undefined
Str(v) == [type |-> "string", text |-> v]
Undefined == [type |-> "undefined", text |-> ""]

(***************************************************************************)
(* Regular-expression pieces shared by the extractors                      *)
(***************************************************************************)
\* first index >= i whose character is not in class (Len(s)+1 if none)
RECURSIVE SkipClass(_, _, _)
SkipClass(s, i, class) ==
    IF i <= Len(s) /\ Ch(s, i) \in class THEN SkipClass(s, i + 1, class) ELSE i

\* /<\/?p[^>]*>/ (slash = TRUE) or /<p[^>]*>/ (slash = FALSE) matched at i:
\* the index of the closing ">", 0 when the pattern does not match at i
PTagEnd(s, i, slash) ==
    IF ~StartsAt(s, i, "<") THEN 0
    ELSE IF slash /\ StartsAt(s, i + 1, "/p") THEN IndexOf(s, ">", i + 3)
    ELSE IF StartsAt(s, i + 1, "p") THEN IndexOf(s, ">", i + 2)
    ELSE 0

\* start of the leftmost match of the paragraph-tag pattern at or after i, 0 if none
RECURSIVE NextPTag(_, _, _)
NextPTag(s, i, slash) ==
    LET lt == IndexOf(s, "<", i)
    IN IF lt = 0 THEN 0
       ELSE IF PTagEnd(s, lt, slash) # 0 THEN lt
       ELSE NextPTag(s, lt + 1, slash)

\* String.prototype.split with the paragraph-tag pattern: the pieces between
\* the matches, empty pieces included
RECURSIVE SplitPFrom(_, _, _)
SplitPFrom(s, i, slash) ==
    LET m == NextPTag(s, i, slash)
    IN IF m = 0 THEN <<SubSeq(s, i, Len(s))>>
       ELSE <<SubSeq(s, i, m - 1)>> \o SplitPFrom(s, PTagEnd(s, m, slash) + 1, slash)

SplitP(s, slash) == SplitPFrom(s, 1, slash)

\* s.split('</p>')[0]
BeforeCloseP(s) ==
    LET k == IndexOf(s, "</p>", 1)
    IN IF k = 0 THEN s ELSE SubSeq(s, 1, k - 1)

\* no line terminator in s[i..j]: what ".*?" can span without the s flag
NoLineBreak(s, i, j) == \A k \in i..j : Ch(s, k) \notin LineTerminator

\* /<a[^>]*>.*?<\/a>/ matched at i: index of the last character of the match, 0 if none
AnchorEnd(s, i) ==
    IF ~StartsAt(s, i, "<a") THEN 0
    ELSE LET gt == IndexOf(s, ">", i + 2)
             close == IF gt = 0 THEN 0 ELSE IndexOf(s, "</a>", gt + 1)
         IN IF close = 0 THEN 0
            ELSE IF NoLineBreak(s, gt + 1, close - 1) THEN close + 3
            ELSE 0

\* para.match(/<a[^>]*>.*?<\/a>/)?.[0] : the leftmost match, Undefined if none
RECURSIVE FirstAnchorFrom(_, _)
AnchorAt(s, lt, end) ==
    IF lt = 0 THEN Undefined
    ELSE IF end # 0 THEN Str(SubSeq(s, lt, end))
    ELSE FirstAnchorFrom(s, lt + 1)
AnchorFrom(s, lt) == AnchorAt(s, lt, AnchorEnd(s, lt))
FirstAnchorFrom(s, i) == AnchorFrom(s, IndexOf(s, "<a", i))

FirstAnchor(s) == FirstAnchorFrom(s, 1)

\* html.match(/<em>(.*?)<\/em>/gs): the matches in order (<<>> stands for null)
RECURSIVE EmMatchesFrom(_, _)
EmMatchesFrom(s, i) ==
    LET open == IndexOf(s, "<em>", i)
        close == IF open = 0 THEN 0 ELSE IndexOf(s, "</em>", open + 4)
    IN IF close = 0 THEN <<>>
       ELSE <<SubSeq(s, open, close + 4)>> \o EmMatchesFrom(s, close + 5)

EmMatches(s) == EmMatchesFrom(s, 1)

\* em.replace(/<\/?em>/g, '')
RECURSIVE RemoveEmTagsFrom(_, _)
RemoveEmTagsFrom(s, i) ==
    LET lt == IndexOf(s, "<", i)
    IN IF lt = 0 THEN SubSeq(s, i, Len(s))
       ELSE IF StartsAt(s, lt, "<em>")
            THEN SubSeq(s, i, lt - 1) \o RemoveEmTagsFrom(s, lt + 4)
       ELSE IF StartsAt(s, lt, "</em>")
            THEN SubSeq(s, i, lt - 1) \o RemoveEmTagsFrom(s, lt + 5)
       ELSE SubSeq(s, i, lt) \o RemoveEmTagsFrom(s, lt + 1)

RemoveEmTags(s) == RemoveEmTagsFrom(s, 1)

\* emMatches.map(em => this.cleanHtml(em.replace(/<\/?em>/g, '')))
CleanEach(m) == [k \in 1..Len(m) |-> cleanHtml(RemoveEmTags(m[k]))]
EmContents(s) == CleanEach(EmMatches(s))

\* /^\d+\s*[A-Za-z]+\./ : "1 John." and the like
StartsWithNumberedBook(s) ==
    LET d == SkipClass(s, 1, Digit)
        w == SkipSpace(s, d)
        l == SkipClass(s, w, Letter)
    IN d > 1 /\ l > w /\ StartsAt(s, l, ".")

\* [1-3]?\s*[A-Za-z]+\.?\s*\d+(?::\d+)?\.?$ matched from index i to the end of s
RefShapeAt(s, i) ==
    LET a == IF i <= Len(s) /\ Ch(s, i) \in {"1", "2", "3"} THEN i + 1 ELSE i
        b == SkipSpace(s, a)
        c == SkipClass(s, b, Letter)
        d == IF StartsAt(s, c, ".") THEN c + 1 ELSE c
        e == SkipSpace(s, d)
        f == SkipClass(s, e, Digit)
        g == SkipClass(s, f + 1, Digit)
        h == IF StartsAt(s, f, ":") /\ g > f + 1 THEN g ELSE f
        k == IF StartsAt(s, h, ".") THEN h + 1 ELSE h
    IN c > b /\ f > e /\ k = Len(s) + 1

\* /^([1-3]?\s*[A-Za-z]+\.?\s*\d+(?::\d+)?\.?)$/
IsBibleRef(s) == RefShapeAt(s, 1)

\* /^—\s*([1-3]?\s*[A-Za-z]+\.?\s*\d+(?::\d+)?\.?)$/
IsDashedBibleRef(s) == StartsAt(s, 1, EmDash) /\ RefShapeAt(s, SkipSpace(s, 2))

\* s.replace(/[—\-]+$/, '')
RECURSIVE StripTrailingDashes(_)
StripTrailingDashes(s) ==
    IF s # "" /\ Ch(s, Len(s)) \in {EmDash, "-"}
    THEN StripTrailingDashes(SubSeq(s, 1, Len(s) - 1))
    ELSE s

\* s.split(' ').length
RECURSIVE CountSpaces(_, _)
CountSpaces(s, i) ==
    LET k == IndexOf(s, " ", i)
    IN IF k = 0 THEN 0 ELSE 1 + CountSpaces(s, k + 1)

WordCount(s) == CountSpaces(s, 1) + 1

(***************************************************************************)
(* extractScripture (src/src/fetcher.ts)                                   *)
(***************************************************************************)
Weekdays == {"monday", "tuesday", "wednesday", "thursday", "friday", "saturday",
             "sunday"}
Months == {"january", "february", "march", "april", "may", "june", "july",
           "august", "september", "october", "november", "december"}

\* /^(w1|w2|...)/i
StartsWithWord(s, words) ==
    LET head == ToLower(SubSeq(s, 1, IF Len(s) < 9 THEN Len(s) ELSE 9))
    IN \E w \in words : StartsAt(head, 1, w)

AllDigits(s, i, j) == SkipClass(s, i, Digit) > j

\* /^\d{1,2}, \d{4}$/ : "30, 2026"
IsDayYear(s) ==
    \E n \in 1..2 :
        /\ Len(s) = n + 6
        /\ AllDigits(s, 1, n)
        /\ StartsAt(s, n + 1, ", ")
        /\ AllDigits(s, n + 3, n + 6)

\* /^\d{4}-\d{2}-\d{2}$/
IsIsoDate(s) ==
    /\ Len(s) = 10
    /\ AllDigits(s, 1, 4) /\ StartsAt(s, 5, "-")
    /\ AllDigits(s, 6, 7) /\ StartsAt(s, 8, "-")
    /\ AllDigits(s, 9, 10)

\* .filter(p => p.trim() && p.length > 10)
KeepParagraph(p) == Trim(p) # "" /\ Len(p) > 10

\* the "just a link" test of the paragraph loop
IsOnlyLink(para) ==
    /\ Includes(para, "<a href")
    /\ FirstAnchor(para) = Str(Trim(para))

\* the "continue" conditions of the paragraph loop, on the cleaned paragraph
LooksLikeCitation(c) == StartsAt(c, 1, EmDash) \/ StartsWithNumberedBook(c)

IsDateHeader(c) ==
    \/ StartsWithWord(c, Weekdays)
    \/ StartsWithWord(c, Months)
    \/ IsDayYear(c)
    \/ IsIsoDate(c)

IsShortOrNote(c) == Len(c) < 15 \/ Includes(c, "w24.") \/ Includes(c, Pilcrow)

HasFewWords(c) == WordCount(c) < 5

SkipCleaned(c) ==
    \/ LooksLikeCitation(c)
    \/ IsDateHeader(c)
    \/ IsShortOrNote(c)
    \/ HasFewWords(c)

SkipParagraph(para) == IsOnlyLink(para) \/ SkipCleaned(cleanHtml(para))

\* the candidate test of the <em> fallback
EmCandidate(content) ==
    ~StartsAt(content, 1, EmDash) /\ ~StartsWithNumberedBook(content) /\ Len(content) > 10

\* return cleanPara.replace(/[—\-]+$/, '').trim()
FinishScripture(c) == Trim(StripTrailingDashes(c))

\* first element of seq from index k on that satisfies Test, "" position 0 if none
RECURSIVE FirstParagraph(_, _)
FirstParagraph(paras, k) ==
    IF k > Len(paras) THEN 0
    ELSE IF KeepParagraph(paras[k]) /\ ~SkipParagraph(paras[k]) THEN k
    ELSE FirstParagraph(paras, k + 1)

RECURSIVE FirstEmCandidate(_, _)
FirstEmCandidate(contents, k) ==
    IF k > Len(contents) THEN 0
    ELSE IF EmCandidate(contents[k]) THEN k
    ELSE FirstEmCandidate(contents, k + 1)

\* p: the paragraph the loop returns from (0: none),
\* e: the span the fallback returns from (0: none)
PickScripture(paragraphs, p, emContents, e) ==
    IF p # 0 THEN Ok(FinishScripture(cleanHtml(paragraphs[p])))
    ELSE IF e # 0 THEN Ok(FinishScripture(emContents[e]))
    ELSE Ok("")

ScriptureFrom(paragraphs, emContents) ==
    PickScripture(paragraphs, FirstParagraph(paragraphs, 1),
                  emContents, FirstEmCandidate(emContents, 1))

extractScripture(h) ==
    IF h.type # "string" THEN Throw("TypeError")
    ELSE ScriptureFrom(SplitP(h.text, TRUE), EmContents(h.text))

(***************************************************************************)
(* extractCitation (src/src/fetcher.ts)                                    *)
(***************************************************************************)
\* CitationOf returning the whole match (citationMatch[0]), dash included
CitationOf_wholeMatch(content) ==
    IF IsDashedBibleRef(content) \/ IsBibleRef(content) THEN Trim(content) ELSE ""

\* what the pattern loop returns for one span: the reference, "" if no match
CitationOf(content) ==
    IF IsDashedBibleRef(content)
    THEN Trim(SubSeq(content, SkipSpace(content, 2), Len(content)))
    ELSE IF IsBibleRef(content) THEN Trim(content)
    ELSE ""

MatchesCitation(content) == IsDashedBibleRef(content) \/ IsBibleRef(content)

RECURSIVE FirstCitation(_, _)
FirstCitation(contents, k) ==
    IF k > Len(contents) THEN 0
    ELSE IF MatchesCitation(contents[k]) THEN k
    ELSE FirstCitation(contents, k + 1)

\* PickCitation with the fallback off by one: any span count, the first span
PickCitation_firstSpan(emContents, k) ==
    IF emContents = <<>> THEN Ok("")
    ELSE IF k # 0 THEN Ok(CitationOf(emContents[k]))
    ELSE IF Len(emContents) >= 1 THEN Ok(emContents[1])
    ELSE Ok("")

\* PickCitation without the "if (!emMatches) return ''" guard: null.map throws
PickCitation_unguarded(emContents, k) ==
    IF emContents = <<>> THEN Throw("TypeError")
    ELSE IF k # 0 THEN Ok(CitationOf(emContents[k]))
    ELSE IF Len(emContents) >= 2 THEN Ok(emContents[2])
    ELSE Ok("")

\* k: the first span matching a citation pattern (0: none)
PickCitation(emContents, k) ==
    IF emContents = <<>> THEN Ok("")
    ELSE IF k # 0 THEN Ok(CitationOf(emContents[k]))
    ELSE IF Len(emContents) >= 2 THEN Ok(emContents[2])
    ELSE Ok("")

CitationFrom(emContents) == PickCitation(emContents, FirstCitation(emContents, 1))

extractCitation(h) ==
    IF h.type # "string" THEN Throw("TypeError")
    ELSE CitationFrom(EmContents(h.text))

(***************************************************************************)
(* processLinks and extractCommentary (src/src/fetcher.ts)                 *)
(***************************************************************************)
\* the replacement '[$2](https://wol.jw.org/en$1)'
LinkPrefix == "https://wol.jw.org/en"
MarkdownLink(text, href) == "[" \o text \o "](" \o LinkPrefix \o href \o ")"

\* /href="([^"]+)"[^>]*>(.*?)<\/a>/i matched at h, with q2 the closing quote of
\* the href, gt the end of the opening tag and close the start of "</a>":
\* <<href, text, index of the last character>>, or <<>> when it does not match
HrefParts(s, h, q2, gt, close) ==
    IF /\ StartsAtCI(s, h, "href=\"")
       /\ q2 > h + 6
       /\ close # 0
       /\ NoLineBreak(s, gt + 1, close - 1)
    THEN <<SubSeq(s, h + 6, q2 - 1), SubSeq(s, gt + 1, close - 1), close + 3>>
    ELSE <<>>

HrefClose(s, h, q2, gt) ==
    HrefParts(s, h, q2, gt, IF gt = 0 THEN 0 ELSE IndexOfCI(s, "</a>", gt + 1))

HrefTag(s, h, q2) == HrefClose(s, h, q2, IF q2 = 0 THEN 0 ELSE IndexOf(s, ">", q2 + 1))

HrefMatch(s, h) == HrefTag(s, h, IndexOf(s, "\"", h + 6))

\* the greatest element of a non-empty set of indices
Greatest(S) == CHOOSE k \in S : \A j \in S : j <= k

\* /<a[^>]*href="([^"]+)"[^>]*>(.*?)<\/a>/i matched at i: the greedy [^>]*
\* makes it the rightmost href=" before the first ">" for which the rest matches
LastHref(s, hrefs) == IF hrefs = {} THEN <<>> ELSE HrefMatch(s, Greatest(hrefs))

HrefsUpTo(s, i, gt) ==
    LastHref(s, {h \in (i + 2)..(IF gt = 0 THEN Len(s) ELSE gt - 1) :
                     HrefMatch(s, h) # <<>>})

LinkMatch(s, i) ==
    IF ~StartsAtCI(s, i, "<a") THEN <<>> ELSE HrefsUpTo(s, i, IndexOf(s, ">", i + 2))

\* s.replace(/<a[^>]*href="([^"]+)"[^>]*>(.*?)<\/a>/gi, '[$2](https://wol.jw.org/en$1)')
\* i: start of the text not yet copied, lt: the next "<a", m: the match there
RECURSIVE ProcessLinksFrom(_, _, _)
ProcessLinkAt(s, i, lt, m) ==
    IF lt = 0 THEN SubSeq(s, i, Len(s))
    ELSE IF m = <<>> THEN ProcessLinksFrom(s, i, lt + 1)
    ELSE SubSeq(s, i, lt - 1) \o MarkdownLink(m[2], m[1])
             \o ProcessLinksFrom(s, m[3] + 1, m[3] + 1)

ProcessLinkNear(s, i, lt) == ProcessLinkAt(s, i, lt, IF lt = 0 THEN <<>> ELSE LinkMatch(s, lt))

ProcessLinksFrom(s, i, from) == ProcessLinkNear(s, i, IndexOfCI(s, "<a", from))

processLinks(s) == ProcessLinksFrom(s, 1, 1)

MinCommentary == 20

\* the text the loop computes for one piece of html.split(/<p[^>]*>/)
CommentaryOf(piece) == cleanHtml(processLinks(BeforeCloseP(piece)))

RECURSIVE FirstCommentary(_, _)
FirstCommentary(pTags, k) ==
    IF k > Len(pTags) THEN 0
    ELSE IF Len(CommentaryOf(pTags[k])) > MinCommentary THEN k
    ELSE FirstCommentary(pTags, k + 1)

\* k: the first piece from the third on that is long enough (0: none)
PickCommentary(pTags, k) == IF k # 0 THEN Ok(CommentaryOf(pTags[k])) ELSE Ok("")

CommentaryFrom(pTags) == PickCommentary(pTags, FirstCommentary(pTags, 3))

extractCommentary(h) ==
    IF h.type # "string" THEN Throw("TypeError")
    ELSE CommentaryFrom(SplitP(h.text, FALSE))

(***************************************************************************)
(* The draft extractors kept in src/main.js                                *)
(***************************************************************************)
\* html.match(/<em>(.*?)<\/em>/s): group 1 of the first match, Undefined if none
FirstGroupOf(m) == IF m = <<>> THEN Undefined ELSE Str(SubSeq(m[1], 5, Len(m[1]) - 5))
FirstEmGroup(s) == FirstGroupOf(EmMatches(s))

\* leftmost em dash at or after k that is followed by \s* and a reference
\* reaching the end of c; 0 if none
RECURSIVE EmbeddedDash(_, _)
EmbeddedDashAt(c, d) ==
    IF d = 0 THEN 0
    ELSE IF RefShapeAt(c, SkipSpace(c, d + 1)) THEN d
    ELSE EmbeddedDash(c, d + 1)
EmbeddedDash(c, k) == EmbeddedDashAt(c, IndexOf(c, EmDash, k))

\* /^(.+?)—\s*([1-3]?\s*[A-Za-z]+\.?\s*\d+(?::\d+)?\.?)$/ : index of the dash, 0 if none
EmbeddedSplitAt(c, d) == IF d # 0 /\ NoLineBreak(c, 1, d - 1) THEN d ELSE 0
EmbeddedSplit(c) == EmbeddedSplitAt(c, EmbeddedDash(c, 2))

\* c: the cleaned first span, d: the dash of its embedded citation (0: none)
DraftPickScripture(c, d) == IF d # 0 THEN Ok(Trim(SubSeq(c, 1, d - 1))) ELSE Ok(c)
DraftScriptureIn(c) == DraftPickScripture(c, EmbeddedSplit(c))
DraftScriptureOf(g) == IF g = Undefined THEN Ok("") ELSE DraftScriptureIn(cleanHtml(g.text))

draftExtractScripture(h) ==
    IF h.type # "string" THEN Throw("TypeError")
    ELSE DraftScriptureOf(FirstEmGroup(h.text))

\* /—\s*([1-3]?\s*[A-Za-z]+\.?\s*\d+(?::\d+)?\.?)$/ on the cleaned first span:
\* group 1 trimmed, "" when the first span has no embedded citation
DraftEmbeddedAt(c, d) ==
    IF d = 0 THEN "" ELSE Trim(SubSeq(c, SkipSpace(c, d + 1), Len(c)))
DraftEmbeddedIn(c) == DraftEmbeddedAt(c, EmbeddedDash(c, 1))
DraftEmbedded(g) == IF g = Undefined THEN "" ELSE DraftEmbeddedIn(cleanHtml(g.text))

\* a match of the reference pattern is never empty, so "" stands for no match
DraftPickCitation(embedded, emTags) ==
    IF embedded # "" THEN Ok(embedded)
    ELSE IF Len(emTags) >= 2 THEN Ok(cleanHtml(RemoveEmTags(emTags[2])))
    ELSE Ok("")

draftExtractCitation(h) ==
    IF h.type # "string" THEN Throw("TypeError")
    ELSE DraftPickCitation(DraftEmbedded(FirstEmGroup(h.text)), EmMatches(h.text))

DraftCommentaryOf(piece) == cleanHtml(BeforeCloseP(piece))

RECURSIVE DraftFirstCommentary(_, _)
DraftFirstCommentary(pTags, k) ==
    IF k > Len(pTags) THEN 0
    ELSE IF Len(DraftCommentaryOf(pTags[k])) > MinCommentary THEN k
    ELSE DraftFirstCommentary(pTags, k + 1)

DraftPickCommentary(pTags, k) ==
    IF k # 0 THEN Ok(DraftCommentaryOf(pTags[k])) ELSE Ok("")

DraftCommentaryFrom(pTags) == DraftPickCommentary(pTags, DraftFirstCommentary(pTags, 3))

draftExtractCommentary(h) ==
    IF h.type # "string" THEN Throw("TypeError")
    ELSE DraftCommentaryFrom(SplitP(h.text, FALSE))

(***************************************************************************)
(* The plugin (src/src/main.ts): state                                     *)
(*                                                                         *)
(* Dates are the numbers 1..MaxDays; 0 is the empty lastAutoFetchDate.     *)
(* One calendar serves for the local date of the note and the UTC date of  *)
(* the marker.  The path template stays the default one, so each date has  *)
(* its own note; a block of a note is the number of the call that wrote it.*)
(***************************************************************************)
MaxDays == 4
MaxTimers == 4
MaxCalls == 4
MaxPendingToggles == 2

Days == 1..MaxDays
NoDate == 0

DEFAULT_SETTINGS ==
    [appendToFile |-> TRUE, autoFetchDaily |-> FALSE, lastAutoFetchDate |-> NoDate]

NoFile == [exists |-> FALSE, blocks |-> <<>>]

\* the plugin object right after its construction, nothing persisted
PluginIdle ==
    /\ lifecycle = "constructed"
    /\ settings = DEFAULT_SETTINGS
    /\ saved = DEFAULT_SETTINGS
    /\ midnightTimeoutId = 0
    /\ dailyIntervalId = 0
    /\ timers = {}
    /\ nextTimerId = 1
    /\ today = 1
    /\ calls = {}
    /\ nextCallId = 1
    /\ toggles = <<>>
    /\ autoStarts = [d \in Days |-> 0]
    /\ files = [d \in Days |-> NoFile]

(***************************************************************************)
(* Inputs                                                                  *)
(***************************************************************************)
\* number of chunks an input string is put together from
MaxChunks == 3

\* all concatenations of at most n strings of chunks
RECURSIVE Concats(_, _)
Concats(chunks, n) ==
    IF n = 0 THEN {""}
    ELSE LET shorter == Concats(chunks, n - 1)
         IN shorter \cup {a \o c : a \in shorter, c \in chunks}

\* pieces of text for the normalizer: entities, entities whose decoding
\* yields an entity or a tag, tags, zero-width spaces, white space, text
CleanChunks ==
    {"&amp;", "amp;", "&lt;", "&gt;", "&nbsp;", "nbsp;", "&quot;", "&#39;",
     "&#8203;", Zwsp, "<b>", "b", " ", "x"}

CleanInputs == Concats(CleanChunks, MaxChunks)

\* pieces of the daily-text fragments of the feed: header and scripture
\* paragraphs, emphasis spans in the embedded and the traditional citation
\* format, plain text, and a commentary paragraph with an inline link
HtmlChunks ==
    {"<p>Monday, January 5</p>",
     "<p><em>Monday, January 5</em></p>",
     "<p><em>In everything let love rule.~1 Cor. 13:8.</em></p>",
     "<em>In everything let love rule.~1 Cor. 13:8.</em>",
     "<em>For God so loved the world.</em>",
     "<em>John 3:16</em>",
     "<em>~ Ps. 23</em>",
     "In everything let love rule.",
     "<p>See the <a href=\"/en/wol/d/r1/lp-e/123\">study note</a> today.</p>"}

HtmlInputs == Concats(HtmlChunks, MaxChunks)

Builds == {"fetcher.ts", "main.js"}

\* what requestUrl can deliver: a rejection, an empty body, a body that is
\* not JSON, JSON without items, and JSON whose first item has a content
\* that is a string or is missing
Response(kind, content) == [kind |-> kind, content |-> content]
Responses ==
    {Response(k, Undefined) : k \in {"rejected", "empty", "notjson", "noitems", "item"}}
        \cup {Response("item", Str(h)) : h \in HtmlInputs}

(***************************************************************************)
(* cleanHtml applied once and twice                                        *)
(***************************************************************************)
FetchIdle ==
    /\ build = "fetcher.ts"
    /\ response = Response("empty", Undefined)
    /\ scripture = "" /\ citation = "" /\ commentary = "" /\ error = ""

CleanIdle == html = "" /\ cleaned = "" /\ recleaned = ""

InitClean ==
    /\ html \in CleanInputs
    /\ cleaned = "" /\ recleaned = ""
    /\ pc = "clean"
    /\ FetchIdle
    /\ PluginIdle

Normalize ==
    /\ pc = "clean"
    /\ cleaned' = cleanHtml(html)
    /\ pc' = "reclean"
    /\ UNCHANGED <<html, recleaned, fetchVars, pluginVars>>

Renormalize ==
    /\ pc = "reclean"
    /\ recleaned' = cleanHtml(cleaned)
    /\ pc' = "done"
    /\ UNCHANGED <<html, cleaned, fetchVars, pluginVars>>

NextClean == Normalize \/ Renormalize

SpecClean == InitClean /\ [][NextClean]_vars

(***************************************************************************)
(* fetchDailyTextForDate                                                   *)
(***************************************************************************)
ScriptureOf(b, h) ==
    IF b = "fetcher.ts" THEN extractScripture(h) ELSE draftExtractScripture(h)
CitationOfBuild(b, h) ==
    IF b = "fetcher.ts" THEN extractCitation(h) ELSE draftExtractCitation(h)
CommentaryOfBuild(b, h) ==
    IF b = "fetcher.ts" THEN extractCommentary(h) ELSE draftExtractCommentary(h)

InitFetch ==
    /\ build \in Builds
    /\ response \in Responses
    /\ scripture = "" /\ citation = "" /\ commentary = "" /\ error = ""
    /\ pc = "request"
    /\ CleanIdle
    /\ PluginIdle

\* lines 22-38: the request, the JSON and the items checks
ReceiveResponse ==
    /\ pc = "request"
    /\ error' = CASE response.kind = "rejected" -> "request failed"
                  [] response.kind = "empty" -> "Empty response from requestUrl"
                  [] response.kind = "notjson" -> "Failed to parse response JSON"
                  [] response.kind = "noitems" -> "No daily text found for this date"
                  [] OTHER -> ""
    /\ pc' = IF response.kind = "item" THEN "scripture" ELSE "thrown"
    /\ UNCHANGED <<cleanVars, pluginVars, build, response, scripture, citation, commentary>>

\* line 42: scripture: this.extractScripture(htmlContent)
CallExtractScripture ==
    /\ pc = "scripture"
    /\ \E r \in {ScriptureOf(build, response.content)} :
          IF r.threw
          THEN error' = r.value /\ pc' = "thrown" /\ UNCHANGED scripture
          ELSE scripture' = r.value /\ pc' = "citation" /\ UNCHANGED error
    /\ UNCHANGED <<cleanVars, pluginVars, build, response, citation, commentary>>

\* line 43: citation: this.extractCitation(htmlContent)
CallExtractCitation ==
    /\ pc = "citation"
    /\ \E r \in {CitationOfBuild(build, response.content)} :
          IF r.threw
          THEN error' = r.value /\ pc' = "thrown" /\ UNCHANGED citation
          ELSE citation' = r.value /\ pc' = "commentary" /\ UNCHANGED error
    /\ UNCHANGED <<cleanVars, pluginVars, build, response, scripture, commentary>>

\* line 44: commentary: this.extractCommentary(htmlContent)
CallExtractCommentary ==
    /\ pc = "commentary"
    /\ \E r \in {CommentaryOfBuild(build, response.content)} :
          IF r.threw
          THEN error' = r.value /\ pc' = "thrown" /\ UNCHANGED commentary
          ELSE commentary' = r.value /\ pc' = "done" /\ UNCHANGED error
    /\ UNCHANGED <<cleanVars, pluginVars, build, response, scripture, citation>>

NextFetch ==
    \/ ReceiveResponse
    \/ CallExtractScripture
    \/ CallExtractCitation
    \/ CallExtractCommentary

SpecFetch == InitFetch /\ [][NextFetch]_vars

\* fetchDailyTextForDate on fragments whose scripture candidate, a paragraph
\* or an emphasis span, ends in hyphens, em dashes and white space
DashChunks ==
    {"<p>Let your light shine before men.", "<em>Let your light shine before men.",
     "</em>", "-", EmDash, " - ", " "}

DashInputs == Concats(DashChunks, MaxChunks)

InitDashes ==
    /\ build \in Builds
    /\ response \in {Response("item", Str(h)) : h \in DashInputs}
    /\ scripture = "" /\ citation = "" /\ commentary = "" /\ error = ""
    /\ pc = "request"
    /\ CleanIdle
    /\ PluginIdle

SpecDashes == InitDashes /\ [][NextFetch]_vars

(***************************************************************************)
(* The plugin (src/src/main.ts): operations                                *)
(*                                                                         *)
(* An async function runs without interruption up to its next await on an  *)
(* I/O promise; each action below is one such stretch.  Timers fire no     *)
(* earlier than they are due and may fire late.                            *)
(***************************************************************************)
Timer(id, kind, due) == [id |-> id, kind |-> kind, due |-> due]

\* window.clearTimeout / clearInterval of the two ids the plugin holds
\* (both functions clear whichever timer has the id; a null id clears nothing)
Cleared(ts) == {t \in ts : t.id # midnightTimeoutId /\ t.id # dailyIntervalId}

\* scheduleDailyAutoFetch: clear both timers, set the timeout for tomorrow
\* 00:00:05; ts are the timers active when it is called
ScheduleDailyAutoFetch(ts) ==
    /\ nextTimerId <= MaxTimers
    /\ timers' = {t \in ts : t.id # midnightTimeoutId /\ t.id # dailyIntervalId}
                     \cup {Timer(nextTimerId, "timeout", today + 1)}
    /\ midnightTimeoutId' = nextTimerId
    /\ dailyIntervalId' = 0
    /\ nextTimerId' = nextTimerId + 1

\* the clearing done by the toggle's else branch and by onunload
ClearTimers ==
    /\ timers' = Cleared(timers)
    /\ midnightTimeoutId' = 0
    /\ dailyIntervalId' = 0
    /\ UNCHANGED nextTimerId

\* this.dailyIntervalId = window.setInterval(..., 24h): the end of the timeout's callback
StartInterval(ts) ==
    /\ nextTimerId <= MaxTimers
    /\ timers' = ts \cup {Timer(nextTimerId, "interval", today + 1)}
    /\ dailyIntervalId' = nextTimerId
    /\ nextTimerId' = nextTimerId + 1
    /\ UNCHANGED midnightTimeoutId

InitPlugin ==
    /\ lifecycle = "constructed"
    /\ settings = DEFAULT_SETTINGS
    /\ saved \in {[DEFAULT_SETTINGS EXCEPT !.autoFetchDaily = a] : a \in BOOLEAN}
    /\ midnightTimeoutId = 0
    /\ dailyIntervalId = 0
    /\ timers = {}
    /\ nextTimerId = 1
    /\ today = 1
    /\ calls = {}
    /\ nextCallId = 1
    /\ toggles = <<>>
    /\ autoStarts = [d \in Days |-> 0]
    /\ files = [d \in Days |-> NoFile]
    /\ pc = "plugin"
    /\ CleanIdle
    /\ FetchIdle

\* onload: loadSettings, the commands and the settings tab, the schedule
Onload ==
    /\ lifecycle = "constructed"
    /\ lifecycle' = "loaded"
    /\ settings' = saved
    /\ IF saved.autoFetchDaily
       THEN ScheduleDailyAutoFetch(timers)
       ELSE UNCHANGED <<timers, midnightTimeoutId, dailyIntervalId, nextTimerId>>
    /\ UNCHANGED <<saved, today, calls, nextCallId, toggles, autoStarts, files>>
    /\ UNCHANGED <<cleanVars, fetchVars, pc>>

Onunload ==
    /\ lifecycle = "loaded"
    /\ lifecycle' = "unloaded"
    /\ ClearTimers
    /\ UNCHANGED <<settings, saved, today, calls, nextCallId, toggles, autoStarts, files>>
    /\ UNCHANGED <<cleanVars, fetchVars, pc>>

\* the auto-fetch toggle's onChange up to "await this.plugin.saveSettings()";
\* a click hands over the opposite of the value the toggle shows
ToggleAutoFetch ==
    /\ lifecycle = "loaded"
    /\ Len(toggles) < MaxPendingToggles
    /\ settings' = [settings EXCEPT !.autoFetchDaily = ~settings.autoFetchDaily]
    /\ saved' = settings'
    /\ toggles' = Append(toggles, ~settings.autoFetchDaily)
    /\ UNCHANGED <<lifecycle, midnightTimeoutId, dailyIntervalId, timers, nextTimerId,
                   today, calls, nextCallId, autoStarts, files>>
    /\ UNCHANGED <<cleanVars, fetchVars, pc>>

RemoveAt(seq, i) == SubSeq(seq, 1, i - 1) \o SubSeq(seq, i + 1, Len(seq))

\* the rest of that onChange, once saveSettings has resolved
ToggleSaved(i) ==
    /\ i \in 1..Len(toggles)
    /\ IF toggles[i] THEN ScheduleDailyAutoFetch(timers) ELSE ClearTimers
    /\ toggles' = RemoveAt(toggles, i)
    /\ UNCHANGED <<lifecycle, settings, saved, today, calls, nextCallId, autoStarts, files>>
    /\ UNCHANGED <<cleanVars, fetchVars, pc>>

\* the append toggle's onChange
ToggleAppend ==
    /\ lifecycle = "loaded"
    /\ settings' = [settings EXCEPT !.appendToFile = ~settings.appendToFile]
    /\ saved' = settings'
    /\ UNCHANGED <<lifecycle, midnightTimeoutId, dailyIntervalId, timers, nextTimerId,
                   today, calls, nextCallId, toggles, autoStarts, files>>
    /\ UNCHANGED <<cleanVars, fetchVars, pc>>

\* a call of fetchAndWriteDailyText that has reached "await requestUrl"
Call(origin) ==
    [id |-> nextCallId, origin |-> origin, date |-> today, pc |-> "requesting",
     content |-> <<>>]

StartFetch(origin) ==
    /\ nextCallId <= MaxCalls
    /\ calls' = calls \cup {Call(origin)}
    /\ nextCallId' = nextCallId + 1

\* the 'Fetch JW Daily Text' command and the 'Fetch Now' button
ManualFetch ==
    /\ lifecycle = "loaded"
    /\ StartFetch("manual")
    /\ UNCHANGED <<lifecycle, settings, saved, midnightTimeoutId, dailyIntervalId, timers,
                   nextTimerId, today, toggles, autoStarts, files>>
    /\ UNCHANGED <<cleanVars, fetchVars, pc>>

\* maybePerformAutoFetch up to its first await: TRUE when it returns at once
AlreadyFetchedToday == settings.lastAutoFetchDate = today

\* maybePerformAutoFetch going on to fetchAndWriteDailyText(new Date())
PerformAutoFetch(origin) ==
    /\ StartFetch(origin)
    /\ autoStarts' = [autoStarts EXCEPT ![today] = @ + 1]

\* the midnight timeout fires: maybePerformAutoFetch, then the interval
FireTimeout(t) ==
    /\ t \in timers /\ t.kind = "timeout" /\ t.due <= today
    /\ IF AlreadyFetchedToday
       THEN /\ StartInterval(timers \ {t})
            /\ UNCHANGED <<calls, nextCallId, autoStarts>>
       ELSE /\ PerformAutoFetch("timeout")
            /\ timers' = timers \ {t}
            /\ UNCHANGED <<midnightTimeoutId, dailyIntervalId, nextTimerId>>
    /\ UNCHANGED <<lifecycle, settings, saved, today, toggles, files>>
    /\ UNCHANGED <<cleanVars, fetchVars, pc>>

\* the 24h interval fires: maybePerformAutoFetch
FireInterval(t) ==
    /\ t \in timers /\ t.kind = "interval" /\ t.due <= today
    /\ timers' = (timers \ {t}) \cup {Timer(t.id, "interval", today + 1)}
    /\ IF AlreadyFetchedToday
       THEN UNCHANGED <<calls, nextCallId, autoStarts>>
       ELSE PerformAutoFetch("interval")
    /\ UNCHANGED <<lifecycle, settings, saved, midnightTimeoutId, dailyIntervalId,
                   nextTimerId, today, toggles, files>>
    /\ UNCHANGED <<cleanVars, fetchVars, pc>>

\* fetchAndWriteDailyText has returned to its caller c: the command and the
\* button are done; maybePerformAutoFetch sets the marker and saves
Returned(c) ==
    IF c.origin = "manual"
    THEN /\ calls' = calls \ {c}
         /\ UNCHANGED <<settings, saved>>
    ELSE /\ calls' = (calls \ {c}) \cup {[c EXCEPT !.pc = "saving"]}
         /\ settings' = [settings EXCEPT !.lastAutoFetchDate = c.date]
         /\ saved' = settings'

\* requestUrl fails, or its answer is empty, not JSON or without content:
\* the catch of fetchAndWriteDailyText
RequestFailed(c) ==
    /\ c \in calls /\ c.pc = "requesting"
    /\ Returned(c)
    /\ UNCHANGED <<lifecycle, midnightTimeoutId, dailyIntervalId, timers, nextTimerId,
                   today, nextCallId, toggles, autoStarts, files>>
    /\ UNCHANGED <<cleanVars, fetchVars, pc>>

\* requestUrl answers: parse, build the block, and writeToVault up to its
\* first await (create, append or modify)
RequestAnswered(c) ==
    /\ c \in calls /\ c.pc = "requesting"
    /\ calls' = (calls \ {c}) \cup
           {IF ~files[c.date].exists THEN [c EXCEPT !.pc = "creating"]
            ELSE IF settings.appendToFile THEN [c EXCEPT !.pc = "appending"]
            ELSE [c EXCEPT !.pc = "overwriting", !.content = <<c.id>>]}
    /\ UNCHANGED <<lifecycle, settings, saved, midnightTimeoutId, dailyIntervalId, timers,
                   nextTimerId, today, nextCallId, toggles, autoStarts, files>>
    /\ UNCHANGED <<cleanVars, fetchVars, pc>>

\* vault.create resolves, or rejects because the file exists by now
CreateDone(c) ==
    /\ c \in calls /\ c.pc = "creating"
    /\ files' = IF files[c.date].exists THEN files
                ELSE [files EXCEPT ![c.date] = [exists |-> TRUE, blocks |-> <<c.id>>]]
    /\ Returned(c)
    /\ UNCHANGED <<lifecycle, midnightTimeoutId, dailyIntervalId, timers, nextTimerId,
                   today, nextCallId, toggles, autoStarts>>
    /\ UNCHANGED <<cleanVars, fetchVars, pc>>

\* vault.append resolves
AppendDone(c) ==
    /\ c \in calls /\ c.pc = "appending"
    /\ files' = [files EXCEPT ![c.date].blocks = Append(@, c.id)]
    /\ Returned(c)
    /\ UNCHANGED <<lifecycle, midnightTimeoutId, dailyIntervalId, timers, nextTimerId,
                   today, nextCallId, toggles, autoStarts>>
    /\ UNCHANGED <<cleanVars, fetchVars, pc>>

\* vault.append throws: the fallback awaits vault.read
AppendFailed(c) ==
    /\ c \in calls /\ c.pc = "appending"
    /\ calls' = (calls \ {c}) \cup {[c EXCEPT !.pc = "reading"]}
    /\ UNCHANGED <<lifecycle, settings, saved, midnightTimeoutId, dailyIntervalId, timers,
                   nextTimerId, today, nextCallId, toggles, autoStarts, files>>
    /\ UNCHANGED <<cleanVars, fetchVars, pc>>

\* vault.read resolves: the fallback awaits vault.modify(existing, current + content)
ReadDone(c) ==
    /\ c \in calls /\ c.pc = "reading"
    /\ calls' = (calls \ {c}) \cup
           {[c EXCEPT !.pc = "modifying", !.content = Append(files[c.date].blocks, c.id)]}
    /\ UNCHANGED <<lifecycle, settings, saved, midnightTimeoutId, dailyIntervalId, timers,
                   nextTimerId, today, nextCallId, toggles, autoStarts, files>>
    /\ UNCHANGED <<cleanVars, fetchVars, pc>>

\* vault.modify resolves: the one of the fallback (line 144) or the
\* overwriting one (line 147)
ModifyDone(c) ==
    /\ c \in calls /\ c.pc \in {"modifying", "overwriting"}
    /\ files' = [files EXCEPT ![c.date] = [exists |-> TRUE, blocks |-> c.content]]
    /\ Returned(c)
    /\ UNCHANGED <<lifecycle, midnightTimeoutId, dailyIntervalId, timers, nextTimerId,
                   today, nextCallId, toggles, autoStarts>>
    /\ UNCHANGED <<cleanVars, fetchVars, pc>>

\* saveSettings of maybePerformAutoFetch resolves; the timeout's callback
\* goes on to set the interval
SaveDone(c) ==
    /\ c \in calls /\ c.pc = "saving"
    /\ calls' = calls \ {c}
    /\ IF c.origin = "timeout"
       THEN StartInterval(timers)
       ELSE UNCHANGED <<timers, midnightTimeoutId, dailyIntervalId, nextTimerId>>
    /\ UNCHANGED <<lifecycle, settings, saved, today, nextCallId, toggles, autoStarts, files>>
    /\ UNCHANGED <<cleanVars, fetchVars, pc>>

\* midnight passes
Tick ==
    /\ today < MaxDays
    /\ today' = today + 1
    /\ UNCHANGED <<lifecycle, settings, saved, midnightTimeoutId, dailyIntervalId, timers,
                   nextTimerId, calls, nextCallId, toggles, autoStarts, files>>
    /\ UNCHANGED <<cleanVars, fetchVars, pc>>

NextPlugin ==
    \/ Onload
    \/ Onunload
    \/ ToggleAutoFetch
    \/ \E i \in 1..MaxPendingToggles : ToggleSaved(i)
    \/ ToggleAppend
    \/ ManualFetch
    \/ \E t \in timers : FireTimeout(t)
    \/ \E t \in timers : FireInterval(t)
    \/ \E c \in calls : RequestFailed(c)
    \/ \E c \in calls : RequestAnswered(c)
    \/ \E c \in calls : CreateDone(c)
    \/ \E c \in calls : AppendDone(c)
    \/ \E c \in calls : AppendFailed(c)
    \/ \E c \in calls : ReadDone(c)
    \/ \E c \in calls : ModifyDone(c)
    \/ \E c \in calls : SaveDone(c)
    \/ Tick

SpecPlugin == InitPlugin /\ [][NextPlugin]_vars

\* The plugin without the manual fetches and the append toggle: the timers,
\* the auto-fetch toggle and the fetches maybePerformAutoFetch starts.  Every
\* behaviour of SpecSchedule is a behaviour of SpecPlugin.
NextSchedule ==
    \/ Onload
    \/ Onunload
    \/ ToggleAutoFetch
    \/ \E i \in 1..MaxPendingToggles : ToggleSaved(i)
    \/ \E t \in timers : FireTimeout(t)
    \/ \E t \in timers : FireInterval(t)
    \/ \E c \in calls : RequestFailed(c)
    \/ \E c \in calls : RequestAnswered(c)
    \/ \E c \in calls : CreateDone(c)
    \/ \E c \in calls : AppendDone(c)
    \/ \E c \in calls : AppendFailed(c)
    \/ \E c \in calls : ReadDone(c)
    \/ \E c \in calls : ModifyDone(c)
    \/ \E c \in calls : SaveDone(c)
    \/ Tick

SpecSchedule == InitPlugin /\ [][NextSchedule]_vars

\* The plugin without its timers firing: the manual fetches, the append
\* toggle and the vault.  Every behaviour of SpecVault is a behaviour of
\* SpecPlugin.
NextVault ==
    \/ Onload
    \/ Onunload
    \/ ToggleAppend
    \/ ManualFetch
    \/ \E c \in calls : RequestFailed(c)
    \/ \E c \in calls : RequestAnswered(c)
    \/ \E c \in calls : CreateDone(c)
    \/ \E c \in calls : AppendDone(c)
    \/ \E c \in calls : AppendFailed(c)
    \/ \E c \in calls : ReadDone(c)
    \/ \E c \in calls : ModifyDone(c)
    \/ Tick

SpecVault == InitPlugin /\ [][NextVault]_vars

(***************************************************************************)
(* Properties                                                              *)
(***************************************************************************)
\* the fragment handed to the extractors, when the response carries one
Fragment == response.content.text
Extracted(b) ==
    /\ pc = "done"
    /\ build = b
    /\ response.content.type = "string"

\* C1: cleanHtml is idempotent: cleaning the cleaned text changes nothing.
C1_CleanHtmlIdempotent == pc = "done" => recleaned = cleaned

\* no <em> span and no paragraph tag in h
HasNoMarkup(h) == EmMatches(h) = <<>> /\ NextPTag(h, 1, TRUE) = 0

\* C2: a fragment without <em> span and without paragraph tag yields the
\* empty string for scripture, citation and commentary.
C2_NoMarkupAllEmpty ==
    Extracted("fetcher.ts") /\ HasNoMarkup(Fragment)
        => scripture = "" /\ citation = "" /\ commentary = ""

\* h is exactly one span <em>S~Ref</em> (embedded format)
IsEmbeddedFragment(h) ==
    /\ EmMatches(h) = <<h>>
    /\ EmbeddedSplit(EmContents(h)[1]) # 0

\* the S and the Ref of an embedded span's text c
QuotationPart(c) == Trim(SubSeq(c, 1, EmbeddedSplit(c) - 1))
ReferencePart(c) == Trim(SubSeq(c, EmbeddedSplit(c) + 1, Len(c)))

\* h is exactly two consecutive spans <em>S</em><em>Ref</em> (traditional format)
IsTraditionalFragment(h) ==
    /\ Len(EmMatches(h)) = 2
    /\ h = EmMatches(h)[1] \o EmMatches(h)[2]
    /\ ~MatchesCitation(EmContents(h)[1])
    /\ EmbeddedSplit(EmContents(h)[1]) = 0
    /\ IsBibleRef(EmContents(h)[2])

\* C3: extractScripture returns the quotation without citation text: S for
\* an embedded span "S~Ref", and S for the two spans <em>S</em><em>Ref</em>.
C3_ScriptureWithoutCitation ==
    /\ Extracted("fetcher.ts") /\ IsEmbeddedFragment(Fragment)
           => scripture = QuotationPart(EmContents(Fragment)[1])
    /\ Extracted("fetcher.ts") /\ IsTraditionalFragment(Fragment)
           => scripture = EmContents(Fragment)[1]

\* C4: for a single embedded span "S~Ref" extractCitation returns Ref,
\* trimmed and without the dash.
C4_EmbeddedCitation ==
    Extracted("fetcher.ts") /\ IsEmbeddedFragment(Fragment)
        => citation = ReferencePart(EmContents(Fragment)[1])

\* the reference a citation span holds: its text without a leading em dash
ReferenceText(c) == IF StartsAt(c, 1, EmDash) THEN Trim(SubSeq(c, 2, Len(c))) ELSE c

\* two or more spans, the first one scripture text and the second the citation
HasTraditionalSpans(h) ==
    /\ Len(EmContents(h)) >= 2
    /\ ~MatchesCitation(EmContents(h)[1])
    /\ MatchesCitation(EmContents(h)[2])

\* exactly one span, which matches no citation pattern
HasOneUnmatchedSpan(h) ==
    /\ Len(EmContents(h)) = 1
    /\ ~MatchesCitation(EmContents(h)[1])

\* C5: with two or more spans, the first scripture text and the second the
\* citation, extractCitation returns the second span's reference; with exactly
\* one span that matches no citation pattern it returns the empty string.
C5_TraditionalCitation ==
    /\ Extracted("fetcher.ts") /\ HasTraditionalSpans(Fragment)
           => citation = ReferenceText(EmContents(Fragment)[2])
    /\ Extracted("fetcher.ts") /\ HasOneUnmatchedSpan(Fragment)
           => citation = ""

C5_Witness ==
    /\ Extracted("fetcher.ts")
    /\ HasTraditionalSpans(Fragment)
    /\ citation = "John 3:16"

\* the cleaned texts of the paragraph segments of h that start with a weekday
WeekdaySegments(h) ==
    {c \in {cleanHtml(SplitP(h, TRUE)[k]) : k \in 1..Len(SplitP(h, TRUE))} :
        StartsWithWord(c, Weekdays)}

\* C6: a paragraph segment whose text begins with a weekday name is never
\* what extractScripture returns.
C6_WeekdayNeverScripture ==
    Extracted("fetcher.ts") => scripture \notin WeekdaySegments(Fragment)

\* the origin of the feed (the url of fetchDailyTextForDate)
FeedOrigin == "https://wol.jw.org"

\* the first inline link of the paragraph extractCommentary returns from:
\* <<href, text, end>>, <<>> when there is no such paragraph or link
CommentaryPiece(h) ==
    IF FirstCommentary(SplitP(h, FALSE), 3) = 0 THEN ""
    ELSE BeforeCloseP(SplitP(h, FALSE)[FirstCommentary(SplitP(h, FALSE), 3)])
CommentaryLink(h) ==
    IF IndexOfCI(CommentaryPiece(h), "<a", 1) = 0 THEN <<>>
    ELSE LinkMatch(CommentaryPiece(h), IndexOfCI(CommentaryPiece(h), "<a", 1))

\* C7: an inline link <a href="H">T</a> of the commentary paragraph, H a path
\* from the root, appears in the commentary as [T](U) with U = origin + H.
C7_LinkResolvedAgainstOrigin ==
    /\ Extracted("fetcher.ts")
    /\ CommentaryLink(Fragment) # <<>>
    /\ StartsAt(CommentaryLink(Fragment)[1], 1, "/")
    => Includes(commentary,
                "[" \o CommentaryLink(Fragment)[2] \o "](" \o FeedOrigin
                    \o CommentaryLink(Fragment)[1] \o ")")

\* C8: a field that cannot be located is no error: with a string as content
\* nothing is thrown at any point, whichever fields are empty, and the
\* extraction is under way or finished only with a string as content.
C8_FieldAbsenceNeverRaises ==
    /\ response.kind = "item" /\ response.content.type = "string"
           => pc # "thrown" /\ error = ""
    /\ pc \in {"citation", "commentary", "done"} => response.content.type = "string"
    /\ pc = "thrown" /\ response.kind = "item" => error = "TypeError"

\* one field located, the other two absent, and the record is complete
C8_Witness ==
    /\ Extracted("fetcher.ts")
    /\ scripture # "" /\ citation = "" /\ commentary = ""
    /\ error = ""

\* C9: extractCitation returns the empty string or a bible reference.
C9_CitationIsReference ==
    Extracted("fetcher.ts") => citation = "" \/ IsBibleRef(citation)

SomeSpanMatches(h) == \E k \in 1..Len(EmContents(h)) : MatchesCitation(EmContents(h)[k])

\* C9 as amended: a bible reference when some span matches a citation pattern;
\* else the second span's text when there are two or more spans; else "".
C9_CitationIsReferenceOrSecondSpan ==
    Extracted("fetcher.ts") =>
        IF SomeSpanMatches(Fragment) THEN IsBibleRef(citation)
        ELSE IF Len(EmContents(Fragment)) >= 2 THEN citation = EmContents(Fragment)[2]
        ELSE citation = ""

C9_Witness ==
    /\ Extracted("fetcher.ts")
    /\ ~SomeSpanMatches(Fragment)
    /\ Len(EmContents(Fragment)) >= 2
    /\ citation = "For God so loved the world."

\* a is an initial part of b
IsPrefix(a, b) == Len(a) <= Len(b) /\ SubSeq(b, 1, Len(a)) = a

\* the step ends an overwriting vault.modify (append false) on the note of d
Overwrites(d) ==
    \E c \in calls : c.pc = "overwriting" /\ c.date = d /\ files'[d].blocks = c.content

\* C11: a note that exists keeps its blocks, in order, whenever a write in
\* append mode ends: the new content is the previous content followed by
\* the new block, also for overlapping writes and the read-modify fallback.
C11_AppendKeepsEarlierBlocks ==
    [][\A d \in Days :
          files[d].exists /\ ~Overwrites(d) => IsPrefix(files[d].blocks, files'[d].blocks)]_vars

\* C10: the automatic fetch runs at most once per day: maybePerformAutoFetch
\* never starts fetchAndWriteDailyText twice for the same date.
C10_AutoFetchOncePerDay == \A d \in Days : autoStarts[d] <= 1

\* the <p> paragraphs of h in order: what follows each opening tag
Paragraphs(h) == Tail(SplitP(h, FALSE))

\* the first paragraph after the second whose text exceeds the minimum (0: none)
FirstLaterParagraph(h) == FirstCommentary(Paragraphs(h), 3)

\* C12: extractCommentary never returns the first or the second <p>
\* paragraph: it returns the first later paragraph whose link-converted,
\* normalized text is longer than 20 characters, "" when there is none.
C12_CommentarySkipsTwoParagraphs ==
    Extracted("fetcher.ts") =>
        commentary = IF FirstLaterParagraph(Fragment) = 0 THEN ""
                     ELSE CommentaryOf(Paragraphs(Fragment)[FirstLaterParagraph(Fragment)])

\* the last character of s ("" for the empty string)
LastChar(s) == SubSeq(s, Len(s), Len(s))

\* C13: a scripture that is not empty does not end with a hyphen or an em
\* dash, also when the candidate ends in dashes separated by white space.
C13_NoTrailingDash ==
    Extracted("fetcher.ts") /\ scripture # "" => LastChar(scripture) \notin {"-", EmDash}

\* the calls of fetchAndWriteDailyText between their request and the end of
\* their vault write
InProgress == {c \in calls : c.pc # "saving"}

\* C14: single-flight: at most one fetch-and-write is in progress at any time.
C14_SingleFlight == Cardinality(InProgress) <= 1

\* auto-fetch is off and the onChange handler that switched it off has ended
AutoFetchDisabled == lifecycle = "loaded" /\ ~settings.autoFetchDaily /\ toggles = <<>>

ActiveIntervals == {t \in timers : t.kind = "interval"}

\* C15: once auto-fetch is disabled or the plugin is unloaded no timer is
\* active (so maybePerformAutoFetch is not invoked), and at no time is more
\* than one interval active.
C15_NoTimerOnceDisabled ==
    /\ lifecycle = "unloaded" => timers = {}
    /\ AutoFetchDisabled => timers = {}
    /\ Cardinality(ActiveIntervals) <= 1

\* the fetches maybePerformAutoFetch started for date d that have not returned
AutoInFlight(d) == {c \in calls : c.origin # "manual" /\ c.date = d /\ c.pc # "saving"}

\* the step in which fetchAndWriteDailyText of c returns to maybePerformAutoFetch,
\* after a failure or after the write
AttemptEnds(c) ==
    /\ c \in calls /\ c.origin # "manual" /\ c.pc # "saving"
    /\ \A n \in calls' : n.id = c.id => n.pc = "saving"

\* the marker holds the date of the attempt and the settings are saved
MarkerRecorded(c) ==
    /\ [c EXCEPT !.pc = "saving"] \in calls'
    /\ settings'.lastAutoFetchDate = c.date
    /\ saved' = settings'

\* the step starts an automatic fetch for date d
AutoFetchStarts(d) == autoStarts'[d] > autoStarts[d]

\* the step is the firing of a timer that is due
TimerFires ==
    /\ lifecycle' = lifecycle /\ toggles' = toggles
    /\ \E t \in timers : t.due <= today /\ t \notin timers'

\* C16: every attempt of maybePerformAutoFetch, failed or not, ends with the
\* marker set to its date and the settings saved, so that no automatic fetch
\* starts for a date for which an attempt has already ended; with the marker
\* equal to today no fetch starts and the settings stay as they are.
C16_MarkerAfterEveryAttempt ==
    [][/\ \A c \in calls : AttemptEnds(c) => MarkerRecorded(c)
       /\ \A d \in Days : AutoFetchStarts(d) => autoStarts[d] = Cardinality(AutoInFlight(d))
       /\ settings.lastAutoFetchDate = today /\ TimerFires =>
              calls' = calls /\ settings' = settings /\ saved' = saved]_vars

====
